---- MODULE Spec2Model ----
(***************************************************************************)
(* A model of the retrieval core of AI-Legal-Assistant:                    *)
(*   src/src/utils/text_chunking.py        TextChunker                     *)
(*   src/src/infrastructure/vector_store.py  VectorStore                   *)
(*   src/src/domain/services/document_processor.py  DocumentProcessor      *)
(*   src/src/api/routes/vector_search.py   the /cases, /batch, /search     *)
(*                                         handlers                        *)
(*                                                                         *)
(* A text is a sequence of tokens <<position, kind>>.  A token is one      *)
(* whitespace-separated word of the text, except a token of kind "cit",    *)
(* which is one match of the citation pattern (three words such as         *)
(* "12 XYZ 345").  The kinds are                                           *)
(*   "w"    a word,                                                        *)
(*   "e"    a word that ends a sentence ("followed."),                     *)
(*   "cit"  a citation,                                                    *)
(*   and a section type ("facts", "issues", ...): a word at whose first    *)
(*   character a match of that section's heading pattern starts.           *)
(* The position makes every occurrence of a word distinguishable; two      *)
(* texts are equal exactly when their sequences of kinds are.              *)
(***************************************************************************)
EXTENDS Integers, Sequences, FiniteSets, TLC

VARIABLES
    text,        \* the text handed to the chunker under study
    chunk_size,  \* TextChunker.chunk_size
    overlap,     \* TextChunker.overlap
    sc,          \* the run of create_chunks in progress
    cc,          \* the run of create_chunks_with_citations in progress
    cases,            \* the committed rows of table cases
    case_embeddings,  \* the committed rows of table case_embeddings
    req,              \* the HTTP requests being handled, each with its own DocumentProcessor
    search            \* the search being answered

chunker_vars == <<text, chunk_size, overlap, sc, cc>>
store_vars == <<cases, case_embeddings, req, search>>
vars == <<chunker_vars, store_vars>>

\* ------------------------------------------------------------------ bounds

MaxLen == 5
MaxChunkSize == 3
MaxCiteLen == 6
MaxOverlap == 2
MaxCases == 2
MaxBatch == 2
MaxTopK == 2

\* ------------------------------------------------------------------ texts

Pos(tok) == tok[1]
Kind(tok) == tok[2]

Occ(kinds) == [i \in 1..Len(kinds) |-> <<i, kinds[i]>>]

RECURSIVE SeqsUpTo(_, _)
SeqsUpTo(S, n) ==
    IF n = 0 THEN {<<>>}
    ELSE LET shorter == SeqsUpTo(S, n - 1)
         IN  shorter \cup {Append(s, x) : s \in {t \in shorter : Len(t) = n - 1}, x \in S}

Min(a, b) == IF a < b THEN a ELSE b

\* str.split() on one token: a citation is three words, any other token one.
SplitLen(tok) == IF Kind(tok) = "cit" THEN 3 ELSE 1

\* len(s.split()) of a piece of text
RECURSIVE WordCount(_)
WordCount(s) == IF s = <<>> THEN 0 ELSE SplitLen(Head(s)) + WordCount(Tail(s))

\* ' '.join(list of pieces)
RECURSIVE Join(_)
Join(pieces) == IF pieces = <<>> THEN <<>> ELSE Head(pieces) \o Join(Tail(pieces))

\* nltk's sent_tokenize: a sentence ends after a word that ends a sentence;
\* what follows the last such word is a sentence of its own.
RECURSIVE SentTokenizeFrom(_, _)
SentTokenizeFrom(s, cur) ==
    IF s = <<>> THEN (IF cur = <<>> THEN <<>> ELSE <<cur>>)
    ELSE IF Kind(Head(s)) = "e"
         THEN <<Append(cur, Head(s))>> \o SentTokenizeFrom(Tail(s), <<>>)
         ELSE SentTokenizeFrom(Tail(s), Append(cur, Head(s)))

sent_tokenize(s) == SentTokenizeFrom(s, <<>>)

\* ------------------------------------------------- section chunker (pure)

\* the keys of section_patterns, in the dict's order
SectionTypes == <<"facts", "issues", "arguments", "analysis", "holding", "headnotes">>

\* re.finditer(pattern, text) for one section type: the matches, left to right
RECURSIVE MatchesFrom(_, _, _)
MatchesFrom(t, section_type, i) ==
    IF i > Len(t) THEN <<>>
    ELSE (IF Kind(t[i]) = section_type
          THEN <<[type |-> section_type, start |-> i]>> ELSE <<>>)
         \o MatchesFrom(t, section_type, i + 1)

RECURSIVE AllMatches(_, _)
AllMatches(t, k) ==
    IF k > Len(SectionTypes) THEN <<>>
    ELSE MatchesFrom(t, SectionTypes[k], 1) \o AllMatches(t, k + 1)

\* list.sort(key=start): a stable insertion sort
RECURSIVE InsertByStart(_, _)
InsertByStart(sorted, x) ==
    IF sorted = <<>> THEN <<x>>
    ELSE IF x.start < Head(sorted).start THEN <<x>> \o sorted
         ELSE <<Head(sorted)>> \o InsertByStart(Tail(sorted), x)

\* no sort: the matches as collected, section type by section type
UnsortedMatches(s) == s

RECURSIVE SortByStart(_)
SortByStart(s) ==
    IF s = <<>> THEN <<>>
    ELSE InsertByStart(SortByStart(SubSeq(s, 1, Len(s) - 1)), s[Len(s)])

identify_section_boundaries(t) == SortByStart(AllMatches(t, 1))

\* text[start:end] of section i
SectionText(t, sections, i) ==
    LET start == sections[i].start
        end   == IF i < Len(sections) THEN sections[i + 1].start ELSE Len(t) + 1
    IN  SubSeq(t, start, end - 1)

SectionChunk(current_chunk, current_length, section_type) ==
    [text |-> Join(current_chunk),
     metadata |-> [section_type |-> section_type, length |-> current_length]]

\* the sentences counted instead of their words: len(current_chunk)
SentenceCount(chunk) == Len(chunk)

RECURSIVE SumWordCount(_)
SumWordCount(chunk) ==
    IF chunk = <<>> THEN 0 ELSE WordCount(Head(chunk)) + SumWordCount(Tail(chunk))

\* a seed of one sentence instead of two: current_chunk[-1:]
OverlapTokensLastOnly(current_chunk) ==
    SubSeq(current_chunk, Len(current_chunk), Len(current_chunk))

\* current_chunk[-2:] if len(current_chunk) > 2 else current_chunk
OverlapTokens(current_chunk) ==
    IF Len(current_chunk) > 2
    THEN SubSeq(current_chunk, Len(current_chunk) - 1, Len(current_chunk))
    ELSE current_chunk

\* one iteration of the loop over the sentences; st holds the loop's locals
SectionStep(st, sentence, size, section_type) ==
    LET sentence_length == WordCount(sentence)
    IN  IF st.current_length + sentence_length > size /\ st.current_chunk # <<>>
        THEN LET next_chunk == Append(OverlapTokens(st.current_chunk), sentence)
             IN  [chunks |-> Append(st.chunks,
                                    SectionChunk(st.current_chunk, st.current_length,
                                                 section_type)),
                  current_chunk |-> next_chunk,
                  current_length |-> SumWordCount(next_chunk)]
        ELSE [chunks |-> st.chunks,
              current_chunk |-> Append(st.current_chunk, sentence),
              current_length |-> st.current_length + sentence_length]

\* the last chunk, if it exists
SectionFlush(st, section_type) ==
    IF st.current_chunk # <<>>
    THEN Append(st.chunks, SectionChunk(st.current_chunk, st.current_length, section_type))
    ELSE st.chunks

SectionStart == [chunks |-> <<>>, current_chunk |-> <<>>, current_length |-> 0]

RECURSIVE SectionLoop(_, _, _, _)
SectionLoop(st, sentences, size, section_type) ==
    IF sentences = <<>> THEN st
    ELSE SectionLoop(SectionStep(st, Head(sentences), size, section_type),
                     Tail(sentences), size, section_type)

get_section_chunks(t, section_type, size) ==
    SectionFlush(SectionLoop(SectionStart, sent_tokenize(t), size, section_type),
                 section_type)

RECURSIVE SectionsChunks(_, _, _, _)
SectionsChunks(t, sections, i, size) ==
    IF i > Len(sections) THEN <<>>
    ELSE get_section_chunks(SectionText(t, sections, i), sections[i].type, size)
         \o SectionsChunks(t, sections, i + 1, size)

create_chunks(t, size) ==
    LET sections == identify_section_boundaries(t)
    IN  IF sections = <<>> THEN get_section_chunks(t, "body", size)
        ELSE SectionsChunks(t, sections, 1, size)

\* ------------------------------------------------ citation chunker (pure)

\* re.split(f'({citation_pattern})', text): the literal pieces between the
\* citations, the first and the last included (empty when the text starts or
\* ends with a citation, or two citations are adjacent).  The pattern holds
\* two capturing groups, the added one around citation_pattern's own, so
\* every citation is returned twice.
RECURSIVE SplitFrom(_, _)
SplitFrom(s, literal) ==
    IF s = <<>> THEN <<literal>>
    ELSE IF Kind(Head(s)) = "cit"
         THEN <<literal, <<Head(s)>>, <<Head(s)>>>> \o SplitFrom(Tail(s), <<>>)
         ELSE SplitFrom(Tail(s), Append(literal, Head(s)))

re_split(t) == SplitFrom(t, <<>>)

\* bool(re.match(citation_pattern, part.strip()))
is_citation(part) == part # <<>> /\ Kind(Head(part)) = "cit"

CitationChunk(current_chunk, current_length, current_citations) ==
    [text |-> current_chunk,
     metadata |-> [citations |-> current_citations, length |-> current_length]]

\* words[:self.overlap] if part_length > self.overlap else words
OverlapWords(words, ov) ==
    IF Len(words) > ov THEN SubSeq(words, 1, ov) ELSE words

\* one iteration of the loop over the parts; st holds the loop's locals
CitationStep(st, part, size, ov) ==
    LET words == part
        part_length == Len(words)
    IN  IF is_citation(part)
        THEN [st EXCEPT !.current_citations = Append(st.current_citations, Head(part))]
        ELSE IF st.current_length + part_length > size /\ st.current_chunk # <<>>
        THEN LET overlap_words == OverlapWords(words, ov)
             IN  [chunks |-> Append(st.chunks,
                                    CitationChunk(st.current_chunk, st.current_length,
                                                  st.current_citations)),
                  current_chunk |-> overlap_words,
                  current_length |-> Len(overlap_words),
                  current_citations |-> <<>>]
        ELSE [st EXCEPT !.current_chunk = st.current_chunk \o words,
                        !.current_length = st.current_length + part_length]

\* the last chunk, if it exists
CitationFlush(st) ==
    IF st.current_chunk # <<>>
    THEN Append(st.chunks, CitationChunk(st.current_chunk, st.current_length,
                                         st.current_citations))
    ELSE st.chunks

CitationStart ==
    [chunks |-> <<>>, current_chunk |-> <<>>, current_length |-> 0,
     current_citations |-> <<>>]

RECURSIVE CitationLoop(_, _, _, _)
CitationLoop(st, parts, size, ov) ==
    IF parts = <<>> THEN st
    ELSE CitationLoop(CitationStep(st, Head(parts), size, ov), Tail(parts), size, ov)

create_chunks_with_citations(t, size, ov) ==
    CitationFlush(CitationLoop(CitationStart, re_split(t), size, ov))

\* the chunkers at rest
ScIdle ==
    [pc |-> "idle", sections |-> <<>>, i |-> 0, section_type |-> "body",
     sentences |-> <<>>, j |-> 0, st |-> SectionStart,
     section_chunks |-> <<>>, chunks |-> <<>>]

CcIdle == [pc |-> "idle", parts |-> <<>>, p |-> 0, st |-> CitationStart, chunks |-> <<>>]

\* ------------------------------------------------------------ chunk store

\* TextChunker(): the chunker DocumentProcessor builds
DefaultChunkSize == 500
DefaultOverlap == 50

\* the threshold hybrid_search compares with, and similarity_search's default
HybridThreshold == 70
DefaultThreshold == 70

\* INSERT INTO cases ... RETURNING id, and the commit.  Of a case the model
\* keeps case_number and full_text; title, court and metadata are carried
\* along with them and read by no condition.
store_case(tbl, c) ==
    Append(tbl, [id |-> Len(tbl) + 1, case_number |-> c.case_number,
                 full_text |-> c.full_text])

\* replacement instead of accumulation: the case's earlier rows are deleted
store_embeddings_replacing(tbl, case_id, chunks, embedding_type, chunk_metadata) ==
    LET Others(e) == e.case_id # case_id
        kept == SelectSeq(tbl, Others)
    IN  kept \o [k \in 1..Min(Len(chunks), Len(chunk_metadata)) |->
                    [id |-> Len(tbl) + k, case_id |-> case_id,
                     embedding_type |-> embedding_type, text_chunk |-> chunks[k],
                     chunk_metadata |-> chunk_metadata[k]]]

\* one row per element of zip(embeddings, chunks, chunk_metadata), appended,
\* and the commit; the embedding is a function of the chunk's text
store_embeddings(tbl, case_id, chunks, embedding_type, chunk_metadata) ==
    tbl \o [k \in 1..Min(Len(chunks), Len(chunk_metadata)) |->
               [id |-> Len(tbl) + k, case_id |-> case_id,
                embedding_type |-> embedding_type, text_chunk |-> chunks[k],
                chunk_metadata |-> chunk_metadata[k]]]

\* [chunk['text'] for chunk in chunks], [chunk['metadata'] for chunk in chunks]
ChunkTexts(chunks) == [k \in 1..Len(chunks) |-> chunks[k].text]
ChunkMetadata(chunks) == [k \in 1..Len(chunks) |-> chunks[k].metadata]

\* the section chunks stored under the id of the first case, whatever the
\* header insert returned
StoreSectionChunksOfFirstCase(tbl, case_id, full_text) ==
    LET chunks == create_chunks(full_text, DefaultChunkSize)
    IN  store_embeddings(tbl, 1, ChunkTexts(chunks), "section", ChunkMetadata(chunks))

\* process_document's two calls of store_embeddings
StoreSectionChunks(tbl, case_id, full_text) ==
    LET chunks == create_chunks(full_text, DefaultChunkSize)
    IN  store_embeddings(tbl, case_id, ChunkTexts(chunks), "section", ChunkMetadata(chunks))

StoreCitationChunks(tbl, case_id, full_text) ==
    LET citation_chunks == create_chunks_with_citations(full_text, DefaultChunkSize,
                                                        DefaultOverlap)
    IN  store_embeddings(tbl, case_id, ChunkTexts(citation_chunks), "citation",
                         ChunkMetadata(citation_chunks))

\* ------------------------------------------------------------------ search

\* ORDER BY similarity ASC LIMIT top_k
RECURSIVE OrderByLimitAscending(_, _)
OrderByLimitAscending(rows, top_k) ==
    IF rows = {} \/ top_k = 0 THEN {<<>>}
    ELSE LET top == {r \in rows : \A o \in rows : o.similarity >= r.similarity}
         IN  UNION {{<<r>> \o rest : rest \in OrderByLimitAscending(rows \ {r}, top_k - 1)} :
                       r \in top}

\* ORDER BY similarity DESC LIMIT top_k over a set of rows: the sequences of
\* the top_k highest rows (all rows when there are fewer), highest first, in
\* every order the ties allow
RECURSIVE OrderByLimit(_, _)
OrderByLimit(rows, top_k) ==
    IF rows = {} \/ top_k = 0 THEN {<<>>}
    ELSE LET top == {r \in rows : \A o \in rows : o.similarity <= r.similarity}
         IN  UNION {{<<r>> \o rest : rest \in OrderByLimit(rows \ {r}, top_k - 1)} : r \in top}

\* the dictionaries built from the fetched rows
ResultRow(r) ==
    [case_number |-> r.case_number, text_chunk |-> r.text_chunk,
     similarity |-> r.similarity]

ResultList(fetched) == [k \in 1..Len(fetched) |-> ResultRow(fetched[k])]

\* WHERE similarity >= threshold
SimilarRowsAtLeast(cs, es, sim, threshold) ==
    {[id |-> cs[p[1]].id, row |-> es[p[2]].id, case_number |-> cs[p[1]].case_number,
      text_chunk |-> es[p[2]].text_chunk, similarity |-> sim[es[p[2]].text_chunk]] :
        p \in {q \in (1..Len(cs)) \X (1..Len(es)) :
                 /\ cs[q[1]].id = es[q[2]].case_id
                 /\ sim[es[q[2]].text_chunk] >= threshold}}

\* cases c JOIN case_embeddings ce ON c.id = ce.case_id WHERE similarity > threshold;
\* sim gives the cosine similarity, in hundredths, of the query to a chunk text
SimilarRows(cs, es, sim, threshold) ==
    {[id |-> cs[i].id, row |-> es[k].id, case_number |-> cs[i].case_number,
      text_chunk |-> es[k].text_chunk, similarity |-> sim[es[k].text_chunk]] :
        <<i, k>> \in {p \in (1..Len(cs)) \X (1..Len(es)) :
                        /\ cs[p[1]].id = es[p[2]].case_id
                        /\ sim[es[p[2]].text_chunk] > threshold}}

\* what similarity_search can return
similarity_search(cs, es, sim, top_k, threshold) ==
    {ResultList(fetched) : fetched \in OrderByLimit(SimilarRows(cs, es, sim, threshold), top_k)}

NoMatch == -1

\* the CTE vector_results: its rows are (id, case_number, title, court_name,
\* text_chunk, similarity)
vector_results(cs, es, sim) ==
    {[id |-> r.id, case_number |-> r.case_number, text_chunk |-> r.text_chunk,
      similarity |-> r.similarity] : r \in SimilarRows(cs, es, sim, HybridThreshold)}

\* the CTE text_results: rank gives ts_rank_cd of the query on a full text, or
\* NoMatch when the full text does not match the query
text_results(cs, rank) ==
    {[id |-> cs[i].id, case_number |-> cs[i].case_number,
      text_chunk |-> cs[i].full_text, similarity |-> rank[cs[i].full_text]] :
        i \in {j \in 1..Len(cs) : rank[cs[j].full_text] # NoMatch}}

\* SELECT * FROM vector_results UNION SELECT * FROM text_results: a set of rows
Combined(cs, es, sim, rank) == vector_results(cs, es, sim) \cup text_results(cs, rank)

\* what hybrid_search can return
hybrid_search(cs, es, sim, rank, top_k) ==
    {ResultList(fetched) : fetched \in OrderByLimit(Combined(cs, es, sim, rank), top_k)}

\* --------------------------------------------------------------- ingestion

Requests == {1, 2}

CaseNumbers == {"2023-A", "2023-B"}

\* an empty text; one sentence; a heading, a word and a citation
CaseTexts == {<<>>, Occ(<<"w", "e">>), Occ(<<"issues", "w", "cit">>)}

CaseInputs == [case_number : CaseNumbers, full_text : CaseTexts]

NoResponse == [status |-> 0, case_ids |-> <<>>]

ReqIdle ==
    [pc |-> "idle", handler |-> "none", cases |-> <<>>, i |-> 0, case_id |-> 0,
     case_ids |-> <<>>, response |-> NoResponse]

SearchIdle ==
    [kind |-> "none", top_k |-> 0, threshold |-> 0, sim |-> <<>>, rank |-> <<>>,
     failed |-> {}, status |-> 0, results |-> <<>>]

StoreInit ==
    /\ cases = <<>>
    /\ case_embeddings = <<>>
    /\ req = [r \in Requests |-> ReqIdle]
    /\ search = SearchIdle

\* "except Exception as e: raise HTTPException(status_code=500, ...)" of
\* create_case and batch_process_cases: the exception ends the handler
Raise(rq) == [rq EXCEPT !.pc = "done", !.response = [status |-> 500, case_ids |-> <<>>]]

\* process_document returned case_id: create_case answers with it;
\* batch_process_documents appends it and goes on with the next case, or returns
Returned(rq) ==
    LET case_ids == Append(rq.case_ids, rq.case_id)
    IN  IF rq.handler = "batch" /\ rq.i < Len(rq.cases)
        THEN [rq EXCEPT !.case_ids = case_ids, !.i = rq.i + 1, !.case_id = 0,
                        !.pc = "store_case"]
        ELSE [rq EXCEPT !.case_ids = case_ids, !.pc = "done",
                        !.response = [status |-> 200, case_ids |-> case_ids]]

\* a POST /cases (one case) or POST /batch (a list of cases) arrives and gets
\* its own DocumentProcessor; an empty batch is answered at once
Submit(r) ==
    /\ req[r].pc \in {"idle", "done"}
    /\ search.kind = "none"
    /\ \E handler \in {"create_case", "batch"} :
       \E list \in SeqsUpTo(CaseInputs, MaxBatch) :
           /\ handler = "create_case" => Len(list) = 1
           /\ Len(cases) + Len(list) <= MaxCases
           /\ req' = [req EXCEPT ![r] =
                        IF list = <<>>
                        THEN [ReqIdle EXCEPT !.pc = "done", !.handler = handler,
                                             !.response = [status |-> 200, case_ids |-> <<>>]]
                        ELSE [ReqIdle EXCEPT !.pc = "store_case", !.handler = handler,
                                             !.cases = list, !.i = 1]]
    /\ UNCHANGED <<chunker_vars, cases, case_embeddings, search>>

\* process_document: store_case, which commits the case header, or raises
StoreCase(r) ==
    /\ req[r].pc = "store_case"
    /\ \/ /\ cases' = store_case(cases, req[r].cases[req[r].i])
          /\ req' = [req EXCEPT ![r] = [@ EXCEPT !.case_id = Len(cases) + 1,
                                                 !.pc = "section"]]
       \/ /\ req' = [req EXCEPT ![r] = Raise(@)]
          /\ UNCHANGED cases
    /\ UNCHANGED <<chunker_vars, case_embeddings, search>>

\* process_document: the section chunks are stored and committed, or
\* store_embeddings raises and nothing of the call is committed
StoreSection(r) ==
    /\ req[r].pc = "section"
    /\ \/ /\ case_embeddings' = StoreSectionChunks(case_embeddings, req[r].case_id,
                                                   req[r].cases[req[r].i].full_text)
          /\ req' = [req EXCEPT ![r] = [@ EXCEPT !.pc = "citation"]]
       \/ /\ req' = [req EXCEPT ![r] = Raise(@)]
          /\ UNCHANGED case_embeddings
    /\ UNCHANGED <<chunker_vars, cases, search>>

\* the citation chunks stored under the highest case id of the table, not the
\* id the call's own header insert returned
StoreCitationOfLastCase(r) ==
    /\ req[r].pc = "citation"
    /\ \/ /\ case_embeddings' = StoreCitationChunks(case_embeddings, Len(cases),
                                                    req[r].cases[req[r].i].full_text)
          /\ req' = [req EXCEPT ![r] = Returned(@)]
       \/ /\ req' = [req EXCEPT ![r] = Raise(@)]
          /\ UNCHANGED case_embeddings
    /\ UNCHANGED <<chunker_vars, cases, search>>

\* process_document: the citation chunks are stored and committed and the
\* case_id is returned to the handler, or store_embeddings raises
StoreCitation(r) ==
    /\ req[r].pc = "citation"
    /\ \/ /\ case_embeddings' = StoreCitationChunks(case_embeddings, req[r].case_id,
                                                    req[r].cases[req[r].i].full_text)
          /\ req' = [req EXCEPT ![r] = Returned(@)]
       \/ /\ req' = [req EXCEPT ![r] = Raise(@)]
          /\ UNCHANGED case_embeddings
    /\ UNCHANGED <<chunker_vars, cases, search>>

ChunkerIdle ==
    /\ text = <<>>
    /\ chunk_size = DefaultChunkSize
    /\ overlap = DefaultOverlap
    /\ sc = ScIdle
    /\ cc = CcIdle

Init == ChunkerIdle /\ StoreInit

\* the requests handled one after the other
Next == Submit(1) \/ StoreCase(1) \/ StoreSection(1) \/ StoreCitation(1)

Spec == Init /\ [][Next]_vars

\* ---------------------------------------------------- concurrent ingestion

\* a POST /cases arrives while another may be under way: get_document_processor
\* gives the request a DocumentProcessor, and with it a connection, of its own
SubmitCase(r) ==
    /\ req[r].pc = "idle"
    /\ Len(cases) < MaxCases
    /\ \E c \in CaseInputs :
           req' = [req EXCEPT ![r] = [ReqIdle EXCEPT !.pc = "store_case",
                                                    !.handler = "create_case",
                                                    !.cases = <<c>>, !.i = 1]]
    /\ UNCHANGED <<chunker_vars, cases, case_embeddings, search>>

\* two requests, the committed writes of their process_document calls
\* interleaved in any way
NextConcurrent ==
    \E r \in Requests :
        SubmitCase(r) \/ StoreCase(r) \/ StoreSection(r) \/ StoreCitation(r)

SpecConcurrent == Init /\ [][NextConcurrent]_vars

\* ----------------------------------------------------------- search requests

Scores == {70, 80, 95}
Ranks == {10, 95}
Thresholds == {DefaultThreshold, 80}

StoredChunkTexts == {case_embeddings[k].text_chunk : k \in 1..Len(case_embeddings)}
StoredFullTexts == {cases[k].full_text : k \in 1..Len(cases)}

\* what ts_rank_cd and @@ can give for a query: an empty text matches no query
QueryRanks ==
    {rank \in [StoredFullTexts -> Ranks \cup {NoMatch}] :
        \A t \in StoredFullTexts : t = <<>> => rank[t] = NoMatch}

\* a POST /cases handled to its end without an error: process_document's three
\* writes (the runs that fail are those of Spec)
Ingest ==
    /\ search.kind = "none"
    /\ Len(cases) < MaxCases
    /\ \E c \in CaseInputs :
           /\ cases' = store_case(cases, c)
           /\ case_embeddings' =
                  StoreCitationChunks(
                      StoreSectionChunks(case_embeddings, Len(cases) + 1, c.full_text),
                      Len(cases) + 1, c.full_text)
    /\ UNCHANGED <<chunker_vars, req, search>>

\* VectorStore.similarity_search for some query, whose embedding has some
\* similarity to each stored chunk text
SimilaritySearch ==
    /\ search.kind = "none"
    /\ \E top_k \in 0..MaxTopK, threshold \in Thresholds :
       \E sim \in [StoredChunkTexts -> Scores] :
       \E results \in similarity_search(cases, case_embeddings, sim, top_k, threshold) :
           search' = [kind |-> "similarity", top_k |-> top_k, threshold |-> threshold,
                      sim |-> sim, rank |-> <<>>, failed |-> {}, status |-> 200,
                      results |-> results]
    /\ UNCHANGED <<chunker_vars, cases, case_embeddings, req>>

\* the two searches hybrid_search combines, the CTEs of its one statement
SubSearches == {"vector", "text"}

\* VectorStore.hybrid_search for some query, which has some similarity to each
\* stored chunk text and matches, with some rank, some of the full texts.  The
\* two searches are the CTEs of one statement: when the evaluation of either
\* fails, cursor.execute raises, nothing is fetched, and search_cases turns the
\* exception into a response of status 500.
HybridSearch ==
    /\ search.kind = "none"
    /\ \E top_k \in 0..MaxTopK :
       \E sim \in [StoredChunkTexts -> Scores] :
       \E rank \in QueryRanks :
       \E failed \in SUBSET SubSearches :
           IF failed = {}
           THEN \E results \in hybrid_search(cases, case_embeddings, sim, rank, top_k) :
                    search' = [kind |-> "hybrid", top_k |-> top_k,
                               threshold |-> HybridThreshold, sim |-> sim, rank |-> rank,
                               failed |-> failed, status |-> 200, results |-> results]
           ELSE search' = [kind |-> "hybrid", top_k |-> top_k,
                           threshold |-> HybridThreshold, sim |-> sim, rank |-> rank,
                           failed |-> failed, status |-> 500, results |-> <<>>]
    /\ UNCHANGED <<chunker_vars, cases, case_embeddings, req>>

\* a search that keeps a record of itself in the store
SearchReturnStoringQuery ==
    /\ search.kind # "none"
    /\ search' = SearchIdle
    /\ cases' = store_case(cases, [case_number |-> "query", full_text |-> <<>>])
    /\ UNCHANGED <<chunker_vars, case_embeddings, req>>

\* search_cases returns the results, or the error
SearchReturn ==
    /\ search.kind # "none"
    /\ search' = SearchIdle
    /\ UNCHANGED <<chunker_vars, cases, case_embeddings, req>>

NextSearch == Ingest \/ SimilaritySearch \/ HybridSearch \/ SearchReturn

SpecSearch == Init /\ [][NextSearch]_vars

\* ------------------------------------------- section chunker (step by step)

SectionInputKinds == {"w", "e", "facts", "issues"}

SectionTexts == {Occ(k) : k \in SeqsUpTo(SectionInputKinds, MaxLen)}

\* create_chunks without its "if not sections" branch: no heading, no chunk
SectionCallNoBody(t, sections, i) ==
    IF sections = <<>>
    THEN [section_type |-> "body", sentences |-> <<>>]
    ELSE [section_type |-> sections[i].type,
          sentences |-> sent_tokenize(SectionText(t, sections, i))]

\* the section create_chunks hands to _get_section_chunks: the whole text as
\* 'body' when no heading was found (i = 0), else section i
SectionCall(t, sections, i) ==
    IF sections = <<>>
    THEN [section_type |-> "body", sentences |-> sent_tokenize(t)]
    ELSE [section_type |-> sections[i].type,
          sentences |-> sent_tokenize(SectionText(t, sections, i))]

\* create_chunks up to its first call of _get_section_chunks
SecStart ==
    /\ sc.pc = "start"
    /\ LET sections == identify_section_boundaries(text)
           call == SectionCall(text, sections, 1)
       IN  sc' = [sc EXCEPT !.pc = "loop", !.sections = sections,
                            !.i = IF sections = <<>> THEN 0 ELSE 1,
                            !.section_type = call.section_type,
                            !.sentences = call.sentences, !.j = 1,
                            !.st = SectionStart]
    /\ UNCHANGED <<text, chunk_size, overlap, cc, store_vars>>

\* one iteration of "for sentence in sentences"
SecSentence ==
    /\ sc.pc = "loop"
    /\ sc.j <= Len(sc.sentences)
    /\ sc' = [sc EXCEPT !.st = SectionStep(sc.st, sc.sentences[sc.j], chunk_size,
                                           sc.section_type),
                        !.j = sc.j + 1]
    /\ UNCHANGED <<text, chunk_size, overlap, cc, store_vars>>

\* the end of _get_section_chunks, and create_chunks up to its next call of it
\* or its return
SecReturn ==
    /\ sc.pc = "loop"
    /\ sc.j > Len(sc.sentences)
    /\ LET section_chunks == SectionFlush(sc.st, sc.section_type)
           chunks == sc.chunks \o section_chunks
       IN  IF sc.i < Len(sc.sections)
           THEN LET call == SectionCall(text, sc.sections, sc.i + 1)
                IN  sc' = [sc EXCEPT !.section_chunks = section_chunks,
                                     !.chunks = chunks, !.i = sc.i + 1,
                                     !.section_type = call.section_type,
                                     !.sentences = call.sentences, !.j = 1,
                                     !.st = SectionStart]
           ELSE sc' = [sc EXCEPT !.section_chunks = section_chunks,
                                 !.chunks = chunks, !.pc = "done"]
    /\ UNCHANGED <<text, chunk_size, overlap, cc, store_vars>>

InitSection ==
    /\ text \in SectionTexts
    /\ chunk_size \in 1..MaxChunkSize
    /\ overlap = DefaultOverlap
    /\ sc = [ScIdle EXCEPT !.pc = "start"]
    /\ cc = CcIdle
    /\ StoreInit

NextSection == SecStart \/ SecSentence \/ SecReturn

SpecSection == InitSection /\ [][NextSection]_vars

\* the run of create_chunks computes what the function computes
SectionRunIsFunction ==
    sc.pc = "done" => sc.chunks = create_chunks(text, chunk_size)

\* ------------------------------------------ citation chunker (step by step)

CitationInputKinds == {"w", "cit"}

CitationTexts == {Occ(k) : k \in SeqsUpTo(CitationInputKinds, MaxCiteLen)}

\* create_chunks_with_citations up to its loop
CitStart ==
    /\ cc.pc = "start"
    /\ cc' = [cc EXCEPT !.pc = "loop", !.parts = re_split(text), !.p = 1,
                        !.st = CitationStart]
    /\ UNCHANGED <<text, chunk_size, overlap, sc, store_vars>>

\* one iteration of "for part in parts"
CitPart ==
    /\ cc.pc = "loop"
    /\ cc.p <= Len(cc.parts)
    /\ cc' = [cc EXCEPT !.st = CitationStep(cc.st, cc.parts[cc.p], chunk_size, overlap),
                        !.p = cc.p + 1]
    /\ UNCHANGED <<text, chunk_size, overlap, sc, store_vars>>

\* the end of the loop: the last chunk and the return
CitReturn ==
    /\ cc.pc = "loop"
    /\ cc.p > Len(cc.parts)
    /\ cc' = [cc EXCEPT !.chunks = CitationFlush(cc.st), !.pc = "done"]
    /\ UNCHANGED <<text, chunk_size, overlap, sc, store_vars>>

InitCitation ==
    /\ text \in CitationTexts
    /\ chunk_size \in 1..MaxChunkSize
    /\ overlap \in 0..MaxOverlap
    /\ sc = ScIdle
    /\ cc = [CcIdle EXCEPT !.pc = "start"]
    /\ StoreInit

NextCitation == CitStart \/ CitPart \/ CitReturn

SpecCitation == InitCitation /\ [][NextCitation]_vars

\* the run of create_chunks_with_citations computes what the function computes
CitationRunIsFunction ==
    cc.pc = "done" => cc.chunks = create_chunks_with_citations(text, chunk_size, overlap)

\* ------------------------------------------------------------ either chunker

\* a run of create_chunks or a run of create_chunks_with_citations
InitChunker == InitSection \/ InitCitation

NextChunker == NextSection \/ NextCitation

SpecChunker == InitChunker /\ [][NextChunker]_vars

\* ----------------------------------------------------------------- claims

Sentences(chunk) == sent_tokenize(chunk.text)

HasLongSentence(chunk, size) ==
    \E k \in 1..Len(Sentences(chunk)) : WordCount(Sentences(chunk)[k]) > size

\* C1: every chunk create_chunks returns has length <= chunk_size, unless
\* the chunk contains a sentence that alone has more words than chunk_size.
C1_ChunkWithinBudget ==
    sc.pc = "done" =>
        \A k \in 1..Len(sc.chunks) :
            \/ sc.chunks[k].metadata.length <= chunk_size
            \/ HasLongSentence(sc.chunks[k], chunk_size)

\* C6: in what _get_section_chunks returns for a section, chunk k+1 begins
\* with the last min(2, s_k) sentences of chunk k.
C6_OverlapSeed ==
    \A k \in 1..(Len(sc.section_chunks) - 1) :
        LET prev == Sentences(sc.section_chunks[k])
            nxt  == Sentences(sc.section_chunks[k + 1])
            m    == Min(2, Len(prev))
        IN  /\ Len(nxt) >= m
            /\ SubSeq(nxt, 1, m) = SubSeq(prev, Len(prev) - m + 1, Len(prev))

\* a section cut into several chunks, one of them of more than two sentences
\* and one of a single sentence
C6_Witness ==
    /\ Len(sc.section_chunks) >= 3
    /\ \E k \in 1..(Len(sc.section_chunks) - 1) :
           Len(Sentences(sc.section_chunks[k])) > 2
    /\ \E k \in 1..(Len(sc.section_chunks) - 1) :
           Len(Sentences(sc.section_chunks[k])) = 1

NoHeading(t) == \A i \in 1..Len(t) : \A k \in 1..Len(SectionTypes) : Kind(t[i]) # SectionTypes[k]

\* C8: for a text in which no heading pattern matches, create_chunks returns
\* the chunks of the whole text chunked as one section, all of type 'body'.
C8_NoHeadingIsBody ==
    (sc.pc = "done" /\ NoHeading(text)) =>
        /\ sc.chunks = get_section_chunks(text, "body", chunk_size)
        /\ \A k \in 1..Len(sc.chunks) : sc.chunks[k].metadata.section_type = "body"

\* a text without heading that is cut into more than one chunk
C8_Witness ==
    /\ sc.pc = "done"
    /\ NoHeading(text)
    /\ Len(sc.chunks) >= 2

Range(s) == {s[k] : k \in 1..Len(s)}

\* C5: every citation of the text is in the 'citations' of exactly one chunk
\* create_chunks_with_citations returns, and in the 'text' of none.
C5_CitationInOneChunk ==
    cc.pc = "done" =>
        \A i \in 1..Len(text) :
            Kind(text[i]) = "cit" =>
                /\ Cardinality({k \in 1..Len(cc.chunks) :
                                  text[i] \in Range(cc.chunks[k].metadata.citations)}) = 1
                /\ \A k \in 1..Len(cc.chunks) : text[i] \notin Range(cc.chunks[k].text)

\* the chunk rows of a case, of one embedding type, in the order stored
RowsOf(case_id, embedding_type) ==
    LET Mine(e) == e.case_id = case_id /\ e.embedding_type = embedding_type
    IN  SelectSeq(case_embeddings, Mine)

RowTexts(rows) == [k \in 1..Len(rows) |-> rows[k].text_chunk]

\* the case holds the section chunk rows and the citation chunk rows of its text
HasAllChunks(c) ==
    /\ RowTexts(RowsOf(c.id, "section")) =
           ChunkTexts(create_chunks(c.full_text, DefaultChunkSize))
    /\ RowTexts(RowsOf(c.id, "citation")) =
           ChunkTexts(create_chunks_with_citations(c.full_text, DefaultChunkSize,
                                                   DefaultOverlap))

Failed(r) == req[r].pc = "done" /\ req[r].response.status = 500

\* C3: once process_document has failed after storing the case header, the
\* store holds no case row of that call whose section or citation chunk rows
\* are missing.
C3_NoPartialCase ==
    \A r \in Requests :
        (Failed(r) /\ req[r].case_id # 0) =>
            \A k \in 1..Len(cases) :
                cases[k].id = req[r].case_id => HasAllChunks(cases[k])

\* C4: a finished batch request reports one outcome per input case, and no
\* single exception stands for the whole batch.
C4_PerCaseOutcome ==
    \A r \in Requests :
        (req[r].pc = "done" /\ req[r].handler = "batch") =>
            /\ req[r].response.status = 200
            /\ Len(req[r].response.case_ids) = Len(req[r].cases)

AddedRows == SubSeq(case_embeddings', Len(case_embeddings) + 1, Len(case_embeddings'))

\* the rows added are one per chunk, each with the case_id, the type, the
\* chunk's text and the chunk's metadata
AddedRowsAre(case_id, embedding_type, chunks) ==
    /\ Len(AddedRows) = Len(chunks)
    /\ \A k \in 1..Len(chunks) :
           /\ AddedRows[k].case_id = case_id
           /\ AddedRows[k].embedding_type = embedding_type
           /\ AddedRows[k].text_chunk = chunks[k].text
           /\ AddedRows[k].chunk_metadata = chunks[k].metadata

\* C9: every step keeps the rows of case_embeddings as they are, and a call of
\* store_embeddings that succeeds adds one row per chunk with the call's
\* case_id and embedding_type.
C9_StoreEmbeddingsAccumulates ==
    [][/\ Len(case_embeddings') >= Len(case_embeddings)
       /\ SubSeq(case_embeddings', 1, Len(case_embeddings)) = case_embeddings
       /\ \A r \in Requests :
             LET full_text == req[r].cases[req[r].i].full_text
             IN  /\ (req[r].pc = "section" /\ req'[r].pc = "citation") =>
                        AddedRowsAre(req[r].case_id, "section",
                                     create_chunks(full_text, DefaultChunkSize))
                 /\ (req[r].pc = "citation"
                        /\ Len(req'[r].case_ids) = Len(req[r].case_ids) + 1) =>
                        AddedRowsAre(req[r].case_id, "citation",
                                     create_chunks_with_citations(full_text, DefaultChunkSize,
                                                                  DefaultOverlap))]_vars

\* a case with section rows and citation rows, stored by two calls
C9_Witness ==
    \E r \in Requests :
        /\ req[r].pc = "done"
        /\ req[r].response.status = 200
        /\ \E j \in 1..Len(case_embeddings), k \in 1..Len(case_embeddings) :
               /\ j < k
               /\ case_embeddings[j].case_id = case_embeddings[k].case_id
               /\ case_embeddings[j].embedding_type = "section"
               /\ case_embeddings[k].embedding_type = "citation"

\* C2: hybrid_search returns no two results with the same case_number and
\* text_chunk.
C2_NoDuplicatePair ==
    (search.kind = "hybrid" /\ search.status = 200) =>
        \A j \in 1..Len(search.results), k \in 1..Len(search.results) :
            j < k =>
                ~ /\ search.results[j].case_number = search.results[k].case_number
                  /\ search.results[j].text_chunk = search.results[k].text_chunk

TimesReturned(row) ==
    Cardinality({k \in 1..Len(search.results) : search.results[k] = row})

NonIncreasing(results) ==
    \A k \in 1..(Len(results) - 1) : results[k].similarity >= results[k + 1].similarity

\* results are the top_k highest of the candidates: as many as top_k and the
\* candidates allow, highest first, each a candidate returned no more often
\* than it is one, and none left out that is higher than one returned
IsTopK(results, candidates, top_k) ==
    /\ Len(results) = Min(top_k, Cardinality(candidates))
    /\ NonIncreasing(results)
    /\ \A k \in 1..Len(results) :
           TimesReturned(results[k]) <=
               Cardinality({c \in candidates : ResultRow(c) = results[k]})
    /\ \A c \in candidates :
           TimesReturned(ResultRow(c)) <
               Cardinality({o \in candidates : ResultRow(o) = ResultRow(c)})
           => \A k \in 1..Len(results) : results[k].similarity >= c.similarity

\* C7: hybrid_search returns the first top_k rows of the union of the vector
\* results and the lexical results in descending order of score.
C7_HybridTopK ==
    (search.kind = "hybrid" /\ search.status = 200) =>
        IsTopK(search.results,
               vector_results(cases, case_embeddings, search.sim)
                   \cup text_results(cases, search.rank),
               search.top_k)

\* a hybrid search cut by top_k, with a lexical result ahead of a vector result
C7_Witness ==
    /\ search.kind = "hybrid"
    /\ search.status = 200
    /\ Len(search.results) = 2
    /\ Cardinality(Combined(cases, case_embeddings, search.sim, search.rank)) > 2
    /\ search.results[1].similarity > search.results[2].similarity
    /\ \E c \in text_results(cases, search.rank) : ResultRow(c) = search.results[1]
    /\ \E c \in vector_results(cases, case_embeddings, search.sim) :
           ResultRow(c) = search.results[2]

\* the chunk rows more similar to the query than the threshold, each with the
\* case it belongs to
Qualifying ==
    {[row |-> case_embeddings[k].id,
      case_number |-> cases[case_embeddings[k].case_id].case_number,
      text_chunk |-> case_embeddings[k].text_chunk,
      similarity |-> search.sim[case_embeddings[k].text_chunk]] :
        k \in {j \in 1..Len(case_embeddings) :
                 search.sim[case_embeddings[j].text_chunk] > search.threshold}}

\* C10: similarity_search returns the chunk rows whose similarity is greater
\* than the threshold, the top_k highest of them, in descending order.
C10_SimilarityTopK ==
    search.kind = "similarity" => IsTopK(search.results, Qualifying, search.top_k)

\* one case, one chunk of similarity 0.95 above the threshold 0.7, a top_k that
\* does not cut: that chunk is the result
C10_Witness ==
    /\ search.kind = "similarity"
    /\ Len(cases) = 1
    /\ search.threshold = 70
    /\ search.top_k = MaxTopK
    /\ Cardinality(Qualifying) = 1
    /\ \E k \in 1..Len(case_embeddings) :
           /\ search.sim[case_embeddings[k].text_chunk] = 95
           /\ search.results = <<[case_number |-> cases[1].case_number,
                                  text_chunk |-> case_embeddings[k].text_chunk,
                                  similarity |-> 95]>>

\* C11: a hybrid search of which exactly one underlying search failed succeeds
\* and returns the top_k results of the other search alone; the hybrid search
\* fails exactly when both underlying searches failed.
C11_SingleFailureFallsBack ==
    search.kind = "hybrid" =>
        /\ search.status = 500 <=> search.failed = SubSearches
        /\ search.failed = {"vector"} =>
               IsTopK(search.results, text_results(cases, search.rank), search.top_k)
        /\ search.failed = {"text"} =>
               IsTopK(search.results,
                      vector_results(cases, case_embeddings, search.sim), search.top_k)

\* the results returned for a case number and a matched text
EntriesFor(case_number, text_chunk) ==
    {k \in 1..Len(search.results) :
        /\ search.results[k].case_number = case_number
        /\ search.results[k].text_chunk = text_chunk}

\* C12: when a case, the only one of its case number, is found with the same
\* matched text by the vector search and by the lexical search, hybrid_search
\* returns at most one entry for the pair, and that entry carries the vector
\* similarity.
C12_SharedPairVectorScore ==
    (search.kind = "hybrid" /\ search.status = 200) =>
        \A v \in vector_results(cases, case_embeddings, search.sim) :
        \A t \in text_results(cases, search.rank) :
            (/\ v.id = t.id
             /\ v.text_chunk = t.text_chunk
             /\ \A k \in 1..Len(cases) :
                    cases[k].case_number = v.case_number => cases[k].id = v.id) =>
                /\ Cardinality(EntriesFor(v.case_number, v.text_chunk)) <= 1
                /\ \A k \in EntriesFor(v.case_number, v.text_chunk) :
                       search.results[k].similarity = v.similarity

\* in the table every section row of the case comes before every citation row
SectionRowsFirst(case_id) ==
    \A j \in 1..Len(case_embeddings), k \in 1..Len(case_embeddings) :
        (/\ case_embeddings[j].case_id = case_id
         /\ case_embeddings[k].case_id = case_id
         /\ case_embeddings[j].embedding_type = "section"
         /\ case_embeddings[k].embedding_type = "citation") => j < k

\* the case row of that id is the header stored for the input case
IsHeaderOf(case_id, input) ==
    /\ case_id \in 1..Len(cases)
    /\ cases[case_id].id = case_id
    /\ cases[case_id].case_number = input.case_number
    /\ cases[case_id].full_text = input.full_text

\* C13: process_document writes the case header, then the section chunks as
\* 'section' rows, then the citation chunks as 'citation' rows, all rows under
\* the id the header insert returned; the case_id is returned only when the
\* three writes are done.
C13_ProcessOrder ==
    \A r \in Requests :
        LET rq == req[r]
        IN  /\ rq.pc \in {"section", "citation"} =>
                   /\ IsHeaderOf(rq.case_id, rq.cases[rq.i])
                   /\ \A k \in 1..Len(rq.case_ids) : rq.case_ids[k] # rq.case_id
                   /\ RowsOf(rq.case_id, "citation") = <<>>
            /\ rq.pc = "section" => RowsOf(rq.case_id, "section") = <<>>
            /\ rq.pc = "citation" =>
                   RowTexts(RowsOf(rq.case_id, "section")) =
                       ChunkTexts(create_chunks(rq.cases[rq.i].full_text, DefaultChunkSize))
            /\ \A k \in 1..Len(rq.case_ids) :
                   /\ IsHeaderOf(rq.case_ids[k], rq.cases[k])
                   /\ HasAllChunks(cases[rq.case_ids[k]])
                   /\ SectionRowsFirst(rq.case_ids[k])

\* a batch of two cases, both returned, the second with a section row and a
\* citation row under its own id
C13_Witness ==
    \E r \in Requests :
        /\ req[r].pc = "done"
        /\ req[r].response.status = 200
        /\ req[r].response.case_ids = <<1, 2>>
        /\ RowsOf(2, "section") # <<>>
        /\ RowsOf(2, "citation") # <<>>

\* the last n words of the segment, all of them when it has no more than n
LastWords(words, n) ==
    IF Len(words) > n THEN SubSeq(words, Len(words) - n + 1, Len(words)) ELSE words

\* the loop of create_chunks_with_citations is at a literal segment that makes
\* the running word count exceed chunk_size
AtOverflow ==
    /\ cc.pc = "loop"
    /\ cc.p <= Len(cc.parts)
    /\ ~ is_citation(cc.parts[cc.p])
    /\ cc.st.current_length + Len(cc.parts[cc.p]) > chunk_size
    /\ cc.st.current_chunk # <<>>

\* C14: the step of the citation chunker at a literal segment that makes the
\* running word count exceed chunk_size closes the current chunk with the
\* pending citations as its metadata, clears the pending citations, and seeds
\* the next chunk with the last overlap words of the segment (all of its words
\* when it has at most overlap words).
C14_OverflowSeedsLastWords ==
    [][AtOverflow =>
          /\ cc'.st.chunks =
                 Append(cc.st.chunks,
                        [text |-> cc.st.current_chunk,
                         metadata |-> [citations |-> cc.st.current_citations,
                                       length |-> cc.st.current_length]])
          /\ cc'.st.current_citations = <<>>
          /\ cc'.st.current_chunk = LastWords(cc.parts[cc.p], overlap)]_vars

\* C15: every chunk create_chunks_with_citations returns has a length of at
\* most chunk_size.
C15_CitationChunkWithinBudget ==
    cc.pc = "done" =>
        \A k \in 1..Len(cc.chunks) :
            /\ cc.chunks[k].metadata.length = Len(cc.chunks[k].text)
            /\ cc.chunks[k].metadata.length <= chunk_size

\* the store after a process_document call that ran alone to its end
ProcessedAlone(store, c) ==
    LET case_id == Len(store.cases) + 1
    IN  [cases |-> store_case(store.cases, c),
         case_embeddings |->
             StoreCitationChunks(
                 StoreSectionChunks(store.case_embeddings, case_id, c.full_text),
                 case_id, c.full_text)]

\* the two calls run one after the other on an empty store
OneAfterTheOther(a, b) ==
    ProcessedAlone(ProcessedAlone([cases |-> <<>>, case_embeddings |-> <<>>], a), b)

\* the chunks a store holds for a case, in the order stored: what a chunk row
\* says apart from its own serial id
ChunksOf(store, case_id) ==
    LET Mine(e) == e.case_id = case_id
        rows == SelectSeq(store.case_embeddings, Mine)
    IN  [k \in 1..Len(rows) |->
            [embedding_type |-> rows[k].embedding_type, text_chunk |-> rows[k].text_chunk,
             chunk_metadata |-> rows[k].chunk_metadata]]

\* the same case rows, and the same chunks for each of them
SameContent(s1, s2) ==
    /\ s1.cases = s2.cases
    /\ Len(s1.case_embeddings) = Len(s2.case_embeddings)
    /\ \A case_id \in 1..Len(s1.cases) : ChunksOf(s1, case_id) = ChunksOf(s2, case_id)

BothReturned ==
    \A r \in Requests :
        /\ req[r].handler = "create_case"
        /\ req[r].pc = "done"
        /\ req[r].response.status = 200

ProducesNoChunk(full_text) ==
    /\ create_chunks(full_text, DefaultChunkSize) = <<>>
    /\ create_chunks_with_citations(full_text, DefaultChunkSize, DefaultOverlap) = <<>>

\* C17: every case whose case_id process_document returned owns at least one
\* chunk row, and process_document returns no case_id, and leaves no case row,
\* for a case whose full_text is empty or produces no chunk.
C17_CaseOwnsChunks ==
    \A r \in Requests :
        \A k \in 1..Len(req[r].case_ids) :
            /\ \E j \in 1..Len(case_embeddings) :
                   case_embeddings[j].case_id = req[r].case_ids[k]
            /\ ~ ProducesNoChunk(req[r].cases[k].full_text)
            /\ ~ ProducesNoChunk(cases[req[r].case_ids[k]].full_text)

\* the positions of the text at which a heading pattern matches
HeadingPositions(t) ==
    {i \in 1..Len(t) : \E k \in 1..Len(SectionTypes) : Kind(t[i]) = SectionTypes[k]}

\* the heading at or before the position that is nearest to it
HeadingBefore(t, pos) ==
    CHOOSE h \in HeadingPositions(t) :
        h <= pos /\ \A g \in HeadingPositions(t) : g <= pos => g <= h

\* the text from a heading up to the next heading, or to the end of the text
TextOfHeading(t, h) ==
    LET later == {g \in HeadingPositions(t) : g > h}
        end == IF later = {} THEN Len(t) + 1
               ELSE CHOOSE g \in later : \A o \in later : g <= o
    IN  SubSeq(t, h, end - 1)

\* the heading of the section the chunk begins in
HeadingOfChunk(k) == HeadingBefore(text, Pos(sc.chunks[k].text[1]))

\* C18: for a text with at least one heading, create_chunks returns its chunks
\* section by section in ascending order of heading start, at least one per
\* heading; each chunk is made of text between its heading and the next one
\* only and carries the heading's section_type; a section of at most
\* chunk_size words gives exactly one chunk, the section's text.
C18_ChunksBySection ==
    (sc.pc = "done" /\ ~ NoHeading(text)) =>
        /\ \A k \in 1..Len(sc.chunks) :
               LET chunk == sc.chunks[k]
               IN  /\ chunk.text # <<>>
                   /\ \A n \in 1..Len(chunk.text) :
                          /\ Pos(chunk.text[n]) \in 1..Len(text)
                          /\ chunk.text[n] = text[Pos(chunk.text[n])]
                          /\ \E h \in HeadingPositions(text) : h <= Pos(chunk.text[n])
                          /\ HeadingBefore(text, Pos(chunk.text[n])) = HeadingOfChunk(k)
                   /\ chunk.metadata.section_type = Kind(text[HeadingOfChunk(k)])
        /\ \A k \in 1..(Len(sc.chunks) - 1) : HeadingOfChunk(k) <= HeadingOfChunk(k + 1)
        /\ \A h \in HeadingPositions(text) :
               LET of_h == {k \in 1..Len(sc.chunks) : HeadingOfChunk(k) = h}
               IN  /\ of_h # {}
                   /\ WordCount(TextOfHeading(text, h)) <= chunk_size =>
                          /\ Cardinality(of_h) = 1
                          /\ \A k \in of_h : sc.chunks[k].text = TextOfHeading(text, h)

\* a facts heading with its sentence, then an issues heading with its words:
\* one 'facts' chunk, then one 'issues' chunk
C18_Witness ==
    /\ sc.pc = "done"
    /\ text # <<>>
    /\ Kind(text[1]) = "facts"
    /\ Cardinality(HeadingPositions(text)) = 2
    /\ Len(sc.chunks) = 2
    /\ sc.chunks[1].metadata.section_type = "facts"
    /\ Len(sc.chunks[1].text) > 1
    /\ sc.chunks[2].metadata.section_type = "issues"
    /\ Len(sc.chunks[2].text) > 1

\* the texts of the returned citation chunks, one after the other
AllChunkWords == Join(ChunkTexts(cc.chunks))

\* the word is not a repetition of an earlier one
FirstOccurrence(words, k) == \A j \in 1..(k - 1) : words[j] # words[k]

\* C19: every word of every literal segment of the text is in the text of some
\* chunk create_chunks_with_citations returns, and the words of the chunks,
\* repetitions left out, are in the order of the text.
C19_NoProseLost ==
    cc.pc = "done" =>
        /\ \A i \in 1..Len(text) :
               Kind(text[i]) # "cit" =>
                   \E k \in 1..Len(cc.chunks) : text[i] \in Range(cc.chunks[k].text)
        /\ \A j \in 1..Len(AllChunkWords), k \in 1..Len(AllChunkWords) :
               (j < k /\ FirstOccurrence(AllChunkWords, j) /\ FirstOccurrence(AllChunkWords, k))
                   => Pos(AllChunkWords[j]) < Pos(AllChunkWords[k])

\* C20: in what create_chunks returns, a chunk that holds a sentence of more
\* words than chunk_size holds that sentence only.
C20_LongSentenceAlone ==
    sc.pc = "done" =>
        \A k \in 1..Len(sc.chunks) :
            \A n \in 1..Len(Sentences(sc.chunks[k])) :
                WordCount(Sentences(sc.chunks[k])[n]) > chunk_size =>
                    Len(Sentences(sc.chunks[k])) = 1

\* C21: the 'citations' of a chunk create_chunks_with_citations returns are
\* citation occurrences of the text, each listed once, in the order of the
\* text, all met after the words of the chunk before and before the words of
\* the chunk after.
C21_CitationsOncePerOccurrence ==
    cc.pc = "done" =>
        \A k \in 1..Len(cc.chunks) :
            LET citations == cc.chunks[k].metadata.citations
            IN  /\ \A n \in 1..Len(citations) :
                       /\ Kind(citations[n]) = "cit"
                       /\ Pos(citations[n]) \in 1..Len(text)
                       /\ text[Pos(citations[n])] = citations[n]
                       /\ k > 1 =>
                              \A w \in Range(cc.chunks[k - 1].text) :
                                  Pos(w) < Pos(citations[n])
                       /\ k < Len(cc.chunks) =>
                              \A w \in Range(cc.chunks[k + 1].text) :
                                  Pos(citations[n]) < Pos(w)
                /\ \A n \in 1..(Len(citations) - 1) :
                       Pos(citations[n]) < Pos(citations[n + 1])

LengthIsWordCount(chunk) ==
    /\ chunk.text # <<>>
    /\ chunk.metadata.length >= 1
    /\ chunk.metadata.length = WordCount(chunk.text)

\* C23: every chunk the section chunker or the citation chunker has produced
\* has a non-empty text and a 'length' equal to the word count of its text.
C23_LengthIsWordCount ==
    /\ \A k \in 1..Len(sc.st.chunks) : LengthIsWordCount(sc.st.chunks[k])
    /\ \A k \in 1..Len(sc.chunks) : LengthIsWordCount(sc.chunks[k])
    /\ \A k \in 1..Len(cc.st.chunks) : LengthIsWordCount(cc.st.chunks[k])
    /\ \A k \in 1..Len(cc.chunks) : LengthIsWordCount(cc.chunks[k])

\* a section chunk that begins with overlap sentences, one of them of more
\* than one word
C23_Witness ==
    /\ sc.pc = "done"
    /\ \E k \in 2..Len(sc.chunks) :
           /\ Len(Sentences(sc.chunks[k])) >= 2
           /\ sc.chunks[k].metadata.length > Len(Sentences(sc.chunks[k]))

\* the texts of the chunks create_chunks returned, one after the other
AllSectionChunkWords == Join(ChunkTexts(sc.chunks))

\* C24: every word of every sentence of the text, the text before the first
\* heading included, is in the text of some chunk create_chunks returns, and
\* the words of the chunks, the repeated overlap left out, are in the order of
\* the text.
C24_NoSentenceLost ==
    sc.pc = "done" =>
        /\ \A i \in 1..Len(text) :
               \E k \in 1..Len(sc.chunks) : text[i] \in Range(sc.chunks[k].text)
        /\ \A j \in 1..Len(AllSectionChunkWords), k \in 1..Len(AllSectionChunkWords) :
               (/\ j < k
                /\ FirstOccurrence(AllSectionChunkWords, j)
                /\ FirstOccurrence(AllSectionChunkWords, k))
                   => Pos(AllSectionChunkWords[j]) < Pos(AllSectionChunkWords[k])

====
